---- MODULE Spec2Model ----
(***************************************************************************)
(* GenericDatabase (src/src/generic-database.ts): a wrapper of ten async   *)
(* methods around one mongoose model, and normalizePopulate                *)
(* (src/dist/generic-helper.js).                                           *)
(*                                                                         *)
(* Every method runs synchronously up to its single `await`, where the     *)
(* query it built is handed to the model; the model executes it atomically *)
(* against the collection and settles the promise; the method then resumes *)
(* inside its try block, or in its catch block when the promise rejected.  *)
(* Each caller is therefore at one of four positions:                      *)
(*   idle -> awaiting -> settled -> done                                   *)
(***************************************************************************)
EXTENDS Integers, Sequences, FiniteSets, TLC

VARIABLES
    store,      \* the collection: _id -> document, or Null where none is stored
    proc,       \* each caller's position in its current call, and what it saw
    deleted     \* history: the _ids for which a genericDeleteOne has returned

vars == <<store, proc, deleted>>

(***************************************************************************)
(* Values                                                                  *)
(***************************************************************************)
Null == [k |-> "null"]
Undefined == [k |-> "undefined"]
Str(s) == [k |-> "string", s |-> s]
Arr(items) == [k |-> "array", items |-> items]
Obj(f) == [k |-> "object", f |-> f]

\* A store document. Every document carries the boolean isDeleted flag.
Doc(id, username, isDeleted) ==
    [k |-> "doc", _id |-> id, username |-> username, isDeleted |-> isDeleted]

\* The array a find() resolves to; the code asks for no sort order.
DocArray(docs) == [k |-> "docs", docs |-> docs]

\* An exception object: its class and its message (the pieces of the
\* template literal, in order).
Exception(cls, msg) == [k |-> "error", cls |-> cls, msg |-> msg]

\* The collection holds at most MaxDocs documents; _id values are 1..MaxDocs.
MaxDocs == 2
Ids == 1..MaxDocs
Usernames == {"a", "b"}

\* The callers. Under Spec one caller issues the calls one after another.
Procs == {"p1", "p2"}
Sequential == {"p1"}
modelName == "Doc"

\* Truthiness with an empty array taken for "nothing found".
EmptyArrayFalsy(v) ==
    \/ v.k \in {"null", "undefined"}
    \/ v.k = "string" /\ v.s = ""
    \/ v.k = "docs" /\ v.docs = {}

\* JavaScript truthiness of the values that occur here: `!v`.
Falsy(v) ==
    \/ v.k \in {"null", "undefined"}
    \/ v.k = "string" /\ v.s = ""

\* `e instanceof Error`: NotFoundException and BadRequestException extend
\* HttpException, which extends Error.
ErrorClasses == {"Error", "MongoError", "NotFoundException", "BadRequestException"}

InstanceOfError(e) == e.k = "error" /\ e.cls \in ErrorClasses

InstanceOfNotFoundException(e) == e.k = "error" /\ e.cls = "NotFoundException"

NotFoundException(msg) == Exception("NotFoundException", msg)

BadRequestException(msg) == Exception("BadRequestException", msg)

Error(msg) == Exception("Error", msg)

(***************************************************************************)
(* normalizePopulate                                                       *)
(***************************************************************************)
\* `'path' in populate` for a non-string value.
HasPath(populate) == populate.k = "object" /\ "path" \in DOMAIN populate.f

\* Only options objects wrapped: the typeof test left out.
StringPassingNormalizePopulate(populate) ==
    IF Falsy(populate) THEN Undefined
    ELSE IF HasPath(populate) THEN Arr(<<populate>>)
    ELSE populate

\* Only strings wrapped: the 'path' test left out.
PathIgnoringNormalizePopulate(populate) ==
    IF Falsy(populate) THEN Undefined
    ELSE IF populate.k = "string" THEN Arr(<<populate>>)
    ELSE populate

\* Everything present wrapped, arrays included.
AlwaysWrappingNormalizePopulate(populate) ==
    IF Falsy(populate) THEN Undefined
    ELSE Arr(<<populate>>)

normalizePopulate(populate) ==
    IF Falsy(populate) THEN Undefined
    ELSE IF populate.k = "string" \/ HasPath(populate) THEN Arr(<<populate>>)
    ELSE populate

(***************************************************************************)
(* Inputs                                                                  *)
(***************************************************************************)
\* populateFields?: string[]
PopulateFields == {Undefined, Arr(<<>>), Arr(<<Str("ref")>>)}

\* populateOptions?: string | PopulateOptions | (string | PopulateOptions)[]
PopulateOptions ==
    {Undefined, Str(""), Str("ref"), Obj([path |-> "ref"]), Arr(<<Str("ref")>>)}

\* The inputs of normalizePopulate taken on its own: strings of up to
\* MaxStrLen characters, options objects with a path, and arrays of up to
\* MaxItems of these.
MaxStrLen == 2
MaxItems == 2
Chars == {"a", "."}

RECURSIVE StringsUpTo(_)
StringsUpTo(n) ==
    IF n = 0 THEN {""}
    ELSE LET shorter == StringsUpTo(n - 1)
         IN  shorter \cup {s \o c : s \in shorter, c \in Chars}

PathObjects == {Obj([path |-> "ref"]), Obj([path |-> "ref", select |-> "name"])}

PopulateItems == {Str(s) : s \in StringsUpTo(MaxStrLen)} \cup PathObjects

RECURSIVE ArraysUpTo(_)
ArraysUpTo(n) ==
    IF n = 0 THEN {<<>>}
    ELSE LET shorter == ArraysUpTo(n - 1)
         IN  shorter \cup {Append(a, x) : a \in shorter, x \in PopulateItems}

NormalizeInputs ==
    {Undefined} \cup PopulateItems \cup {Arr(a) : a \in ArraysUpTo(MaxItems)}

\* filter: any  (plain objects of equality conditions)
Filters ==
    {<<>>} \cup
    {[username |-> u] : u \in Usernames} \cup
    {[isDeleted |-> TRUE], [_id |-> 1], [username |-> "a", isDeleted |-> TRUE]}

CreateDtos ==
    {[username |-> u] : u \in Usernames} \cup
    {[username |-> "a", isDeleted |-> TRUE]}

UpdateDtos ==
    {[username |-> u] : u \in Usernames} \cup
    {[isDeleted |-> b] : b \in BOOLEAN} \cup
    {[username |-> "b", isDeleted |-> FALSE]}

\* What a rejected query can reject with: an Error instance, either a
\* driver error or a NotFoundException (genericFindOneByIdOrNotFound tells
\* the two apart), or a value that is not an Error instance.
MapperErrors ==
    {Exception("MongoError", <<"db">>), Exception("NotFoundException", <<"nf">>)}

MapperNonErrors == {Str("boom"), Obj([code |-> "E11000"])}

MapperFailures == MapperErrors \cup MapperNonErrors

(***************************************************************************)
(* Object spread and the collection                                        *)
(***************************************************************************)
\* { ...a, ...b }: b's keys win.
Spread(a, b) ==
    [key \in DOMAIN a \cup DOMAIN b |->
        IF key \in DOMAIN b THEN b[key] ELSE a[key]]

\* The flag spread first, so that the caller's own isDeleted wins.
FlagFirstNotDeleted(filter) ==
    Spread([isDeleted |-> FALSE], IF filter = Undefined THEN <<>> ELSE filter)

\* { ...filter, isDeleted: false }; spreading undefined adds nothing.
NotDeleted(filter) ==
    Spread(IF filter = Undefined THEN <<>> ELSE filter, [isDeleted |-> FALSE])

Stored(s) == {s[i] : i \in Ids} \ {Null}

Matches(doc, filter) ==
    \A key \in DOMAIN filter : key \in DOMAIN doc /\ doc[key] = filter[key]

Matching(s, filter) == {d \in Stored(s) : Matches(d, filter)}

\* Deletion done by removing the document instead of flagging it.
RemovingApplyUpdate(doc, update) ==
    IF "isDeleted" \in DOMAIN update /\ update.isDeleted THEN Null
    ELSE Spread(doc, update)

\* The document replaced by the update instead of having its keys set.
ReplacingApplyUpdate(doc, update) ==
    Spread(Doc(doc._id, "", FALSE), update)

\* The document after a $set of the update's keys.
ApplyUpdate(doc, update) == Spread(doc, update)

\* new Model(dto): schema default isDeleted = false, fresh _id.
NewDocument(id, dto) ==
    Spread(Doc(id, "", FALSE), Spread(dto, [_id |-> id]))

(***************************************************************************)
(* Caller records                                                          *)
(***************************************************************************)
None == [k |-> "none"]

NoArgs == [id |-> None, username |-> None, filter |-> None, dto |-> None,
           populate |-> None]

Args(id, username, filter, dto, populate) ==
    [id |-> id, username |-> username, filter |-> filter, dto |-> dto,
     populate |-> populate]

\* A query handed to the model: populate = None when .populate() was not
\* called on it.
Query(method, filter, update, populate) ==
    [method |-> method, filter |-> filter, update |-> update,
     populate |-> populate]

\* queries: the queries the call has handed to the model so far;
\* before: the collection as it was when the model executed the query;
\* outcome: how the awaited promise settled; result: how the call ended.
Idle == [pc |-> "idle", op |-> "", args |-> NoArgs, queries |-> <<>>,
         before |-> None, outcome |-> None, result |-> None]

Resolved(v) == [k |-> "resolved", value |-> v]
Rejected(e) == [k |-> "rejected", error |-> e]
Return(v) == [k |-> "return", value |-> v]
Throw(e) == [k |-> "throw", error |-> e]

Init ==
    /\ store = [i \in Ids |-> Null]
    /\ proc = [p \in Procs |-> Idle]
    /\ deleted = {}

\* A caller can start a call when it is not inside one.
Ready(p) == proc[p].pc \in {"idle", "done"}

\* A call that hands its query to the model a second time.
RetryingAwaiting(op, args, query) ==
    [pc |-> "awaiting", op |-> op, args |-> args, queries |-> <<query, query>>,
     before |-> None, outcome |-> None, result |-> None]

\* The caller's record once the synchronous prefix of a method has built
\* its query and reached the await.
Awaiting(op, args, query) ==
    [pc |-> "awaiting", op |-> op, args |-> args, queries |-> <<query>>,
     before |-> None, outcome |-> None, result |-> None]

\* The outcome of the awaited promise as the try block sees it: the value
\* it resolved to, or the rejection thrown at the await.
Awaited(outcome) ==
    IF outcome.k = "rejected" THEN Throw(outcome.error)
    ELSE Return(outcome.value)

(***************************************************************************)
(* genericFindByUsername                                                   *)
(***************************************************************************)
genericFindByUsernameCall(p) ==
    /\ Ready(p)
    /\ \E username \in Usernames, populateFields \in PopulateFields :
        proc' = [proc EXCEPT ![p] = Awaiting(
            "genericFindByUsername",
            Args(None, username, None, None, populateFields),
            Query("findOne", [username |-> username, isDeleted |-> FALSE],
                  None,
                        IF ~Falsy(populateFields) /\ Len(populateFields.items) > 0
                  THEN populateFields ELSE None))]
    /\ UNCHANGED <<store, deleted>>

genericFindByUsername(args, outcome) ==
    LET response == Awaited(outcome)
        try == IF response.k = "throw" THEN response
               ELSE IF Falsy(response.value)
               THEN Throw(NotFoundException(
                        <<"Document with username ", args.username, " not found">>))
               ELSE Return(response.value)
    IN  IF try.k = "return" THEN try
        ELSE IF InstanceOfError(try.error)
        THEN Throw(NotFoundException(
                 <<"Error finding document by username: ">> \o try.error.msg))
        ELSE Throw(try.error)

(***************************************************************************)
(* genericFindAll                                                          *)
(***************************************************************************)
genericFindAllCall(p) ==
    /\ Ready(p)
    /\ proc' = [proc EXCEPT ![p] = Awaiting(
            "genericFindAll", NoArgs,
            Query("find", [isDeleted |-> FALSE], None, None))]
    /\ UNCHANGED <<store, deleted>>

genericFindAll(args, outcome) ==
    LET response == Awaited(outcome)
        try == IF response.k = "throw" THEN response
               ELSE IF Falsy(response.value)
               THEN Throw(NotFoundException(
                        <<"No ", modelName, " documents found">>))
               ELSE Return(response.value)
    IN  IF try.k = "return" THEN try
        ELSE IF InstanceOfError(try.error)
        THEN Throw(NotFoundException(
                 <<"Error finding all documents: ">> \o try.error.msg))
        ELSE Throw(try.error)

(***************************************************************************)
(* genericFindOneByIdOrNotFound                                            *)
(***************************************************************************)
genericFindOneByIdOrNotFoundCall(p) ==
    /\ Ready(p)
    /\ \E id \in Ids, populateFields \in PopulateFields :
        proc' = [proc EXCEPT ![p] = Awaiting(
            "genericFindOneByIdOrNotFound",
            Args(id, None, None, None, populateFields),
            Query("findOne", [_id |-> id, isDeleted |-> FALSE], None,
                  IF ~Falsy(populateFields) /\ Len(populateFields.items) > 0
                  THEN populateFields ELSE None))]
    /\ UNCHANGED <<store, deleted>>

genericFindOneByIdOrNotFound(args, outcome) ==
    LET response == Awaited(outcome)
        try == IF response.k = "throw" THEN response
               ELSE IF Falsy(response.value)
               THEN Throw(NotFoundException(
                        <<modelName, " Document with id ", ToString(args.id), " not found">>))
               ELSE Return(response.value)
    IN  IF try.k = "return" THEN try
        ELSE IF InstanceOfNotFoundException(try.error) THEN Throw(try.error)
        ELSE IF InstanceOfError(try.error)
        THEN Throw(Error(<<"Error finding document: ">> \o try.error.msg))
        ELSE Throw(try.error)

(***************************************************************************)
(* genericCreateOne                                                        *)
(***************************************************************************)
genericCreateOneCall(p) ==
    /\ Ready(p)
    /\ \E createDto \in CreateDtos :
        proc' = [proc EXCEPT ![p] = Awaiting(
            "genericCreateOne",
            Args(None, None, None, createDto, None),
            Query("save", None, createDto, None))]
    /\ UNCHANGED <<store, deleted>>

\* The catch block of the read methods pasted into genericCreateOne.
NotFoundGenericCreateOne(args, outcome) ==
    IF outcome.k = "resolved" THEN Return(outcome.value)
    ELSE IF InstanceOfError(outcome.error)
    THEN Throw(NotFoundException(
             <<"Error creating document: ">> \o outcome.error.msg))
    ELSE Throw(outcome.error)

genericCreateOne(args, outcome) ==
    LET response == Awaited(outcome)
        try == IF response.k = "throw" THEN response
               ELSE IF Falsy(response.value)
               THEN Throw(BadRequestException(
                        <<"Failed to create ", modelName, " document">>))
               ELSE Return(response.value)
    IN  IF try.k = "return" THEN try
        ELSE IF InstanceOfError(try.error)
        THEN Throw(BadRequestException(
                 <<"Error creating document: ">> \o try.error.msg))
        ELSE Throw(try.error)

(***************************************************************************)
(* genericUpdateOne                                                        *)
(***************************************************************************)
\* genericUpdateOne looking the document up by _id alone.
UnfilteredGenericUpdateOneCall(p) ==
    /\ Ready(p)
    /\ \E id \in Ids, updateDto \in UpdateDtos :
        proc' = [proc EXCEPT ![p] = Awaiting(
            "genericUpdateOne",
            Args(id, None, None, updateDto, None),
            Query("findOneAndUpdate", [_id |-> id], updateDto, None))]
    /\ UNCHANGED <<store, deleted>>

genericUpdateOneCall(p) ==
    /\ Ready(p)
    /\ \E id \in Ids, updateDto \in UpdateDtos :
        proc' = [proc EXCEPT ![p] = Awaiting(
            "genericUpdateOne",
            Args(id, None, None, updateDto, None),
            Query("findOneAndUpdate", [_id |-> id, isDeleted |-> FALSE],
                  updateDto, None))]
    /\ UNCHANGED <<store, deleted>>

genericUpdateOne(args, outcome) ==
    LET updatedDocument == Awaited(outcome)
        try == IF updatedDocument.k = "throw" THEN updatedDocument
               ELSE IF Falsy(updatedDocument.value)
               THEN Throw(NotFoundException(
                        <<modelName, " Document with id ", ToString(args.id), " not found">>))
               ELSE Return(updatedDocument.value)
    IN  IF try.k = "return" THEN try
        ELSE IF InstanceOfError(try.error)
        THEN Throw(BadRequestException(
                 <<"Error updating document: ">> \o try.error.msg))
        ELSE Throw(try.error)

(***************************************************************************)
(* genericDeleteOne                                                        *)
(***************************************************************************)
\* genericDeleteOne looking the document up by _id alone.
UnfilteredGenericDeleteOneCall(p) ==
    /\ Ready(p)
    /\ \E id \in Ids :
        proc' = [proc EXCEPT ![p] = Awaiting(
            "genericDeleteOne",
            Args(id, None, None, None, None),
            Query("findOneAndUpdate", [_id |-> id], [isDeleted |-> TRUE], None))]
    /\ UNCHANGED <<store, deleted>>

genericDeleteOneCall(p) ==
    /\ Ready(p)
    /\ \E id \in Ids :
        proc' = [proc EXCEPT ![p] = Awaiting(
            "genericDeleteOne",
            Args(id, None, None, None, None),
            Query("findOneAndUpdate", [_id |-> id, isDeleted |-> FALSE],
                  [isDeleted |-> TRUE], None))]
    /\ UNCHANGED <<store, deleted>>

genericDeleteOne(args, outcome) ==
    LET deletedDocument == Awaited(outcome)
        try == IF deletedDocument.k = "throw" THEN deletedDocument
               ELSE IF Falsy(deletedDocument.value)
               THEN Throw(NotFoundException(
                        <<modelName, " Document with id ", ToString(args.id), " not found">>))
               ELSE Return(deletedDocument.value)
    IN  IF try.k = "return" THEN try
        ELSE IF InstanceOfError(try.error)
        THEN Throw(BadRequestException(
                 <<"Error deleting document: ">> \o try.error.msg))
        ELSE Throw(try.error)

(***************************************************************************)
(* genericFindOne                                                          *)
(***************************************************************************)
genericFindOneCall(p) ==
    /\ Ready(p)
    /\ \E filter \in Filters :
        proc' = [proc EXCEPT ![p] = Awaiting(
            "genericFindOne",
            Args(None, None, filter, None, None),
            Query("findOne", NotDeleted(filter), None, None))]
    /\ UNCHANGED <<store, deleted>>

\* genericFindOne rejecting a missing result like genericFindOneOrNotFound.
ThrowingGenericFindOne(args, outcome) ==
    IF outcome.k = "resolved"
    THEN IF Falsy(outcome.value)
         THEN Throw(NotFoundException(
                  <<modelName, " Document not found with provided filter">>))
         ELSE Return(outcome.value)
    ELSE IF InstanceOfError(outcome.error)
    THEN Throw(NotFoundException(
             <<"Error finding document by filter: ">> \o outcome.error.msg))
    ELSE Throw(outcome.error)

genericFindOne(args, outcome) ==
    LET response == Awaited(outcome)
    IN  IF response.k = "return" THEN response
        ELSE IF InstanceOfError(response.error)
        THEN Throw(NotFoundException(
                 <<"Error finding document by filter: ">> \o response.error.msg))
        ELSE Throw(response.error)

(***************************************************************************)
(* genericFindOneWithPopulate                                              *)
(***************************************************************************)
genericFindOneWithPopulateCall(p) ==
    /\ Ready(p)
    /\ \E filter \in Filters, populateOptions \in PopulateOptions :
        LET normalizedPopulate == normalizePopulate(populateOptions) IN
        proc' = [proc EXCEPT ![p] = Awaiting(
            "genericFindOneWithPopulate",
            Args(None, None, filter, None, populateOptions),
            Query("findOne", NotDeleted(filter), None,
                  IF ~Falsy(normalizedPopulate)
                  THEN normalizedPopulate ELSE None))]
    /\ UNCHANGED <<store, deleted>>

\* A catch block without the instanceof test: every failure is wrapped.
WrappingGenericFindOneWithPopulate(args, outcome) ==
    IF outcome.k = "resolved" THEN Return(outcome.value)
    ELSE Throw(NotFoundException(<<"Error finding and populating document: ">>))

genericFindOneWithPopulate(args, outcome) ==
    LET response == Awaited(outcome)
    IN  IF response.k = "return" THEN response
        ELSE IF InstanceOfError(response.error)
        THEN Throw(NotFoundException(
                 <<"Error finding and populating document: ">>
                 \o response.error.msg))
        ELSE Throw(response.error)

(***************************************************************************)
(* genericFindAllWithPopulate                                              *)
(***************************************************************************)
genericFindAllWithPopulateCall(p) ==
    /\ Ready(p)
    /\ \E filter \in Filters \cup {Undefined}, populateOptions \in PopulateOptions :
        LET normalizedPopulate == normalizePopulate(populateOptions) IN
        proc' = [proc EXCEPT ![p] = Awaiting(
            "genericFindAllWithPopulate",
            Args(None, None, filter, None, populateOptions),
            Query("find", NotDeleted(filter), None,
                  IF ~Falsy(normalizedPopulate)
                  THEN normalizedPopulate ELSE None))]
    /\ UNCHANGED <<store, deleted>>

\* A catch block that rethrows whatever it caught.
RethrowingGenericFindAllWithPopulate(args, outcome) ==
    IF outcome.k = "resolved" THEN Return(outcome.value)
    ELSE Throw(outcome.error)

genericFindAllWithPopulate(args, outcome) ==
    LET response == Awaited(outcome)
    IN  IF response.k = "return" THEN response
        ELSE IF InstanceOfError(response.error)
        THEN Throw(NotFoundException(
                 <<"Error finding and populating documents: ">>
                 \o response.error.msg))
        ELSE Throw(response.error)

(***************************************************************************)
(* genericFindOneOrNotFound                                                *)
(***************************************************************************)
genericFindOneOrNotFoundCall(p) ==
    /\ Ready(p)
    /\ \E filter \in Filters :
        proc' = [proc EXCEPT ![p] = Awaiting(
            "genericFindOneOrNotFound",
            Args(None, None, filter, None, None),
            Query("findOne", NotDeleted(filter), None, None))]
    /\ UNCHANGED <<store, deleted>>

\* genericFindOneOrNotFound without its null check.
NullReturningGenericFindOneOrNotFound(args, outcome) ==
    IF outcome.k = "resolved" THEN Return(outcome.value)
    ELSE IF InstanceOfError(outcome.error)
    THEN Throw(NotFoundException(
             <<"Error finding document by filter: ">> \o outcome.error.msg))
    ELSE Throw(outcome.error)

genericFindOneOrNotFound(args, outcome) ==
    LET response == Awaited(outcome)
        try == IF response.k = "throw" THEN response
               ELSE IF Falsy(response.value)
               THEN Throw(NotFoundException(
                        <<modelName, " Document not found with provided filter">>))
               ELSE Return(response.value)
    IN  IF try.k = "return" THEN try
        ELSE IF InstanceOfError(try.error)
        THEN Throw(NotFoundException(
                 <<"Error finding document by filter: ">> \o try.error.msg))
        ELSE Throw(try.error)

(***************************************************************************)
(* The model's side of the await: the query executes atomically            *)
(***************************************************************************)
Settle(p, outcome) ==
    /\ proc' = [proc EXCEPT ![p].pc = "settled", ![p].before = store,
                            ![p].outcome = outcome]
    /\ UNCHANGED deleted

Pending(p, method) ==
    /\ proc[p].pc = "awaiting"
    /\ proc[p].queries[1].method = method

\* Model.findOne(filter)[.populate(..)].exec(): one matching document, or
\* null when there is none.
findOne(p) ==
    /\ Pending(p, "findOne")
    /\ LET found == Matching(store, proc[p].queries[1].filter)
       IN  \/ found = {} /\ Settle(p, Resolved(Null))
           \/ \E d \in found : Settle(p, Resolved(d))
    /\ UNCHANGED store

\* Model.find(filter)[.populate(..)].exec(): every matching document.
find(p) ==
    /\ Pending(p, "find")
    /\ Settle(p, Resolved(DocArray(Matching(store, proc[p].queries[1].filter))))
    /\ UNCHANGED store

\* Model.findOneAndUpdate(filter, update, { new: true }).exec(): updates one
\* matching document and resolves to it as updated, or resolves to null and
\* writes nothing when there is none.
findOneAndUpdate(p) ==
    /\ Pending(p, "findOneAndUpdate")
    /\ LET found == Matching(store, proc[p].queries[1].filter)
       IN  \/ /\ found = {}
              /\ Settle(p, Resolved(Null))
              /\ UNCHANGED store
           \/ \E d \in found :
                LET updated == ApplyUpdate(d, proc[p].queries[1].update)
                IN  /\ store' = [store EXCEPT ![d._id] = updated]
                    /\ Settle(p, Resolved(updated))

\* new Model(dto).save(): inserts the document under a fresh _id and
\* resolves to it.
save(p) ==
    /\ Pending(p, "save")
    /\ \E id \in Ids :
        /\ store[id] = Null
        /\ LET created == NewDocument(id, proc[p].queries[1].update)
           IN  /\ store' = [store EXCEPT ![id] = created]
               /\ Settle(p, Resolved(created))

\* Any query can reject instead (validation, duplicate key, connection
\* loss, a rejected populate); a rejected query writes nothing.
reject(p) ==
    /\ proc[p].pc = "awaiting"
    /\ \E e \in MapperFailures : Settle(p, Rejected(e))
    /\ UNCHANGED store

(***************************************************************************)
(* The rest of the method after its await                                  *)
(***************************************************************************)
After(op, args, outcome) ==
    CASE op = "genericFindByUsername" -> genericFindByUsername(args, outcome)
      [] op = "genericFindAll" -> genericFindAll(args, outcome)
      [] op = "genericFindOneByIdOrNotFound" ->
            genericFindOneByIdOrNotFound(args, outcome)
      [] op = "genericCreateOne" -> genericCreateOne(args, outcome)
      [] op = "genericUpdateOne" -> genericUpdateOne(args, outcome)
      [] op = "genericDeleteOne" -> genericDeleteOne(args, outcome)
      [] op = "genericFindOne" -> genericFindOne(args, outcome)
      [] op = "genericFindOneWithPopulate" ->
            genericFindOneWithPopulate(args, outcome)
      [] op = "genericFindAllWithPopulate" ->
            genericFindAllWithPopulate(args, outcome)
      [] op = "genericFindOneOrNotFound" ->
            genericFindOneOrNotFound(args, outcome)

Resume(p) ==
    /\ proc[p].pc = "settled"
    /\ LET result == After(proc[p].op, proc[p].args, proc[p].outcome)
       IN  /\ proc' = [proc EXCEPT ![p].pc = "done", ![p].result = result]
           /\ deleted' = IF proc[p].op = "genericDeleteOne" /\ result.k = "return"
                         THEN deleted \cup {proc[p].args.id}
                         ELSE deleted
    /\ UNCHANGED store

Next ==
    \E p \in Sequential :
        \/ genericFindByUsernameCall(p)
        \/ genericFindAllCall(p)
        \/ genericFindOneByIdOrNotFoundCall(p)
        \/ genericCreateOneCall(p)
        \/ genericUpdateOneCall(p)
        \/ genericDeleteOneCall(p)
        \/ genericFindOneCall(p)
        \/ genericFindOneWithPopulateCall(p)
        \/ genericFindAllWithPopulateCall(p)
        \/ genericFindOneOrNotFoundCall(p)
        \/ findOne(p)
        \/ find(p)
        \/ findOneAndUpdate(p)
        \/ save(p)
        \/ reject(p)
        \/ Resume(p)

Spec == Init /\ [][Next]_vars

(***************************************************************************)
(* normalizePopulate on its own: a caller holds an argument and calls it   *)
(***************************************************************************)
InitNormalize ==
    /\ store = [i \in Ids |-> Null]
    /\ deleted = {}
    /\ \E populate \in NormalizeInputs :
        proc = [p \in Procs |->
                  IF p \in Sequential
                  THEN [Idle EXCEPT !.op = "normalizePopulate",
                                    !.args.populate = populate]
                  ELSE Idle]

normalizePopulateCall(p) ==
    /\ proc[p].pc = "idle"
    /\ proc[p].op = "normalizePopulate"
    /\ proc' = [proc EXCEPT
                  ![p].pc = "done",
                  ![p].result = Return(normalizePopulate(proc[p].args.populate))]
    /\ UNCHANGED <<store, deleted>>

NextNormalize == \E p \in Sequential : normalizePopulateCall(p)

SpecNormalize == InitNormalize /\ [][NextNormalize]_vars

(***************************************************************************)
(* Updates and soft deletions by two callers at once, on a collection that *)
(* already holds a non-deleted document: the calls overlap, the model      *)
(* executes each findOneAndUpdate atomically, in any order.                *)
(***************************************************************************)
InitConcurrent ==
    /\ store = [i \in Ids |-> IF i = 1 THEN Doc(i, "a", FALSE) ELSE Null]
    /\ proc = [p \in Procs |-> Idle]
    /\ deleted = {}

NextConcurrent ==
    \E p \in Procs :
        \/ genericUpdateOneCall(p)
        \/ genericDeleteOneCall(p)
        \/ findOneAndUpdate(p)
        \/ reject(p)
        \/ Resume(p)

SpecConcurrent == InitConcurrent /\ [][NextConcurrent]_vars

(***************************************************************************)
(* Properties                                                              *)
(***************************************************************************)
ReadOps ==
    {"genericFindByUsername", "genericFindAll", "genericFindOneByIdOrNotFound",
     "genericFindOne", "genericFindOneWithPopulate",
     "genericFindAllWithPopulate", "genericFindOneOrNotFound"}

WriteOps == {"genericCreateOne", "genericUpdateOne", "genericDeleteOne"}

\* The call of p has ended.
Done(p) == proc[p].pc = "done"

\* The call of p has ended and its query was answered, not rejected.
Answered(p) == Done(p) /\ proc[p].outcome.k = "resolved"

\* The call of p has ended and its query was rejected with a value of F.
Failed(p, F) ==
    /\ Done(p)
    /\ proc[p].outcome.k = "rejected"
    /\ proc[p].outcome.error \in F

\* The call of p ended by raising an exception of class cls.
Raised(p, cls) ==
    /\ proc[p].result.k = "throw"
    /\ proc[p].result.error.k = "error"
    /\ proc[p].result.error.cls = cls

\* The documents of collection s that are not soft-deleted and meet every
\* condition of the filter other than one on isDeleted itself.
Visible(s, filter) ==
    {d \in Stored(s) :
        /\ d.isDeleted = FALSE
        /\ \A key \in DOMAIN filter \ {"isDeleted"} : d[key] = filter[key]}

\* The documents a call returned: the document, the array's documents, or
\* none for null.
Returned(p) ==
    IF proc[p].result.k # "return" THEN {}
    ELSE IF proc[p].result.value.k = "doc" THEN {proc[p].result.value}
    ELSE IF proc[p].result.value.k = "docs" THEN proc[p].result.value.docs
    ELSE {}

\* The filter the caller passed, {} when it passed none.
CallerFilter(p) ==
    IF proc[p].args.filter = Undefined THEN <<>> ELSE proc[p].args.filter

\* C1: when the lookup of genericFindOneByIdOrNotFound(id) or of
\* genericFindOneOrNotFound(filter) is answered and no non-deleted document
\* matches (none stored, or only soft-deleted ones), the call ends by
\* raising a NotFoundException; it returns neither null nor a document.
C1_MissingRaisesNotFound ==
    \A p \in Procs :
        /\ (Answered(p) /\ proc[p].op = "genericFindOneByIdOrNotFound"
              /\ Visible(proc[p].before, [_id |-> proc[p].args.id]) = {})
           => Raised(p, "NotFoundException")
        /\ (Answered(p) /\ proc[p].op = "genericFindOneOrNotFound"
              /\ Visible(proc[p].before, proc[p].args.filter) = {})
           => Raised(p, "NotFoundException")

\* A by-filter-or-throw lookup that found only a soft-deleted document
\* ended with NotFoundException.
C1_Witness ==
    \E p \in Procs :
        /\ Answered(p) /\ proc[p].op = "genericFindOneOrNotFound"
        /\ proc[p].args.filter = [username |-> "a"]
        /\ \E d \in Stored(proc[p].before) : d.username = "a" /\ d.isDeleted
        /\ Visible(proc[p].before, proc[p].args.filter) = {}
        /\ Raised(p, "NotFoundException")

\* C2: when the save / findOneAndUpdate of genericCreateOne, genericUpdateOne
\* or genericDeleteOne rejects with an Error instance, the call raises a
\* BadRequestException (not a NotFoundException, not the original error).
C2_WriteFailureIsBadRequest ==
    \A p \in Procs :
        (Failed(p, MapperErrors) /\ proc[p].op \in WriteOps)
        => /\ Raised(p, "BadRequestException")
           /\ proc[p].result.error # proc[p].outcome.error

\* A genericCreateOne whose save was rejected ended with BadRequestException.
C2_Witness ==
    \E p \in Procs :
        /\ Failed(p, MapperErrors) /\ proc[p].op = "genericCreateOne"
        /\ Raised(p, "BadRequestException")

\* C3 (as claimed): genericUpdateOne and genericDeleteOne raise a
\* NotFoundException when no non-deleted document has the id.
C3_MissingUpdateRaisesNotFound ==
    \A p \in Procs :
        (Answered(p) /\ proc[p].op \in {"genericUpdateOne", "genericDeleteOne"}
            /\ Visible(proc[p].before, [_id |-> proc[p].args.id]) = {})
        => Raised(p, "NotFoundException")

\* C4 (as claimed): every read method raises a NotFoundException when its
\* query rejects with an Error instance, and no method turns an Error
\* instance into anything but NotFoundException or BadRequestException.
C4_ReadFailureIsNotFound ==
    \A p \in Procs :
        /\ (Failed(p, MapperErrors) /\ proc[p].op \in ReadOps)
           => Raised(p, "NotFoundException")
        /\ Failed(p, MapperErrors)
           => (Raised(p, "NotFoundException") \/ Raised(p, "BadRequestException"))

\* C4 (amended): every read method other than genericFindOneByIdOrNotFound
\* raises a NotFoundException when its query rejects with an Error instance;
\* genericFindOneByIdOrNotFound raises a plain Error, unless the rejection
\* is itself a NotFoundException, which it rethrows unchanged; so an Error
\* instance comes out as NotFoundException, BadRequestException or plain
\* Error.
C4_ReadFailureIsNotFoundExceptById ==
    \A p \in Procs :
        /\ (Failed(p, MapperErrors)
              /\ proc[p].op \in ReadOps \ {"genericFindOneByIdOrNotFound"})
           => Raised(p, "NotFoundException")
        /\ (Failed(p, MapperErrors) /\ proc[p].op = "genericFindOneByIdOrNotFound")
           => IF proc[p].outcome.error.cls = "NotFoundException"
              THEN proc[p].result = Throw(proc[p].outcome.error)
              ELSE Raised(p, "Error")
        /\ Failed(p, MapperErrors)
           => \/ Raised(p, "NotFoundException")
              \/ Raised(p, "BadRequestException")
              \/ Raised(p, "Error")

\* A genericFindOneByIdOrNotFound whose query was rejected with a driver
\* error ended with a plain Error.
C4_Witness ==
    \E p \in Procs :
        /\ Failed(p, MapperErrors) /\ proc[p].op = "genericFindOneByIdOrNotFound"
        /\ proc[p].outcome.error.cls = "MongoError"
        /\ Raised(p, "Error")

\* C5: in each of the ten methods, a query that rejects with a value that is
\* not an Error instance makes the call raise that very value.
C5_NonErrorRethrownUnchanged ==
    \A p \in Procs :
        Failed(p, MapperNonErrors) => proc[p].result = Throw(proc[p].outcome.error)

\* A genericFindOneWithPopulate whose query was rejected with a plain object
\* raised that object.
C5_Witness ==
    \E p \in Procs :
        /\ Failed(p, MapperNonErrors) /\ proc[p].op = "genericFindOneWithPopulate"
        /\ proc[p].outcome.error.k = "object"
        /\ proc[p].result = Throw(proc[p].outcome.error)

\* C6: every document a read method returns was stored with
\* isDeleted = false when the query ran, and no read returns a document for
\* which a genericDeleteOne had returned before.
C6_ReadsReturnOnlyNonDeleted ==
    \A p \in Procs :
        (Done(p) /\ proc[p].op \in ReadOps)
        => \A d \in Returned(p) :
              /\ proc[p].before[d._id] = d
              /\ d.isDeleted = FALSE
              /\ d._id \notin deleted

\* A read whose filter asked for isDeleted = true returned a non-deleted
\* document while a soft-deleted one was stored.
C6_Witness ==
    \E p \in Procs :
        /\ Done(p) /\ proc[p].op = "genericFindAllWithPopulate"
        /\ proc[p].args.filter = [isDeleted |-> TRUE]
        /\ Returned(p) # {}
        /\ deleted # {}
        /\ \E i \in deleted : proc[p].before[i].isDeleted

\* C7: no step removes a stored document: the set of stored _ids never
\* shrinks.
C7_NoHardDelete ==
    [][\A i \in Ids : store[i] # Null => store'[i] # Null]_vars

\* A genericDeleteOne has returned and its document is still stored.
C7_Witness ==
    \E p \in Procs :
        /\ Done(p) /\ proc[p].op = "genericDeleteOne"
        /\ proc[p].result.k = "return"
        /\ proc[p].before[proc[p].args.id] # Null
        /\ store[proc[p].args.id] # Null
        /\ store[proc[p].args.id].isDeleted

\* C8 (as claimed): genericFindByUsername resolves to a matching non-deleted
\* document when there is one and to null when there is none.
C8_FindByUsernameResolvesNull ==
    \A p \in Procs :
        (Answered(p) /\ proc[p].op = "genericFindByUsername")
        => LET found == Visible(proc[p].before,
                                [username |-> proc[p].args.username])
           IN  IF found = {} THEN proc[p].result = Return(Null)
               ELSE proc[p].result.k = "return" /\ proc[p].result.value \in found

\* C9: genericFindOne and genericFindOneWithPopulate resolve to null, raising
\* nothing, when no non-deleted document matches the filter, and to a
\* matching non-deleted document otherwise.
C9_FindOneResolvesNullOrMatch ==
    \A p \in Procs :
        (Answered(p)
            /\ proc[p].op \in {"genericFindOne", "genericFindOneWithPopulate"})
        => LET found == Visible(proc[p].before, proc[p].args.filter)
           IN  IF found = {} THEN proc[p].result = Return(Null)
               ELSE proc[p].result.k = "return" /\ proc[p].result.value \in found

\* A genericFindOne resolved to null while the only document with the
\* username was soft-deleted.
C9_Witness ==
    \E p \in Procs :
        /\ Answered(p) /\ proc[p].op = "genericFindOne"
        /\ proc[p].args.filter = [username |-> "a"]
        /\ \E d \in Stored(proc[p].before) : d.username = "a" /\ d.isDeleted
        /\ proc[p].result = Return(Null)

\* C10: genericFindAll returns exactly the stored documents with
\* isDeleted = false, genericFindAllWithPopulate exactly those of them that
\* match the filter (all of them without a filter); an empty selection comes
\* back as an empty array, not as an error.
C10_FindAllReturnsExactlyNonDeleted ==
    \A p \in Procs :
        /\ (Answered(p) /\ proc[p].op = "genericFindAll")
           => proc[p].result = Return(DocArray(Visible(proc[p].before, <<>>)))
        /\ (Answered(p) /\ proc[p].op = "genericFindAllWithPopulate")
           => proc[p].result =
                Return(DocArray(Visible(proc[p].before, CallerFilter(p))))

\* A genericFindAll returned the empty array while a soft-deleted document
\* was stored.
C10_Witness ==
    \E p \in Procs :
        /\ Answered(p) /\ proc[p].op = "genericFindAll"
        /\ Stored(proc[p].before) # {}
        /\ proc[p].result = Return(DocArray({}))

\* The call of p was normalizePopulate(x) and has returned.
Normalized(p) == Done(p) /\ proc[p].op = "normalizePopulate"

\* C11 (as claimed): normalizePopulate(s) is the one-element array [s] for
\* every string s, whatever its length.
C11_EveryStringWrapped ==
    \A p \in Procs :
        (Normalized(p) /\ proc[p].args.populate.k = "string")
        => proc[p].result = Return(Arr(<<proc[p].args.populate>>))

\* C11 (amended): normalizePopulate(s) is the one-element array [s] for
\* every non-empty string s; for the empty string it is undefined.
C11_NonEmptyStringWrapped ==
    \A p \in Procs :
        (Normalized(p) /\ proc[p].args.populate.k = "string")
        => IF proc[p].args.populate.s = ""
           THEN proc[p].result = Return(Undefined)
           ELSE proc[p].result = Return(Arr(<<proc[p].args.populate>>))

\* A string of MaxStrLen characters came back as a one-element array.
C11_Witness ==
    \E p \in Procs :
        /\ Normalized(p)
        /\ proc[p].args.populate.k = "string"
        /\ Len(proc[p].args.populate.s) = MaxStrLen
        /\ proc[p].result.value.k = "array"
        /\ proc[p].result.value.items = <<proc[p].args.populate>>

\* C12: normalizePopulate(o) is the one-element array [o] for every options
\* object o that has a path key; o's keys are as they were.
C12_PathObjectWrapped ==
    \A p \in Procs :
        (Normalized(p) /\ proc[p].args.populate.k = "object"
            /\ "path" \in DOMAIN proc[p].args.populate.f)
        => /\ proc[p].result.k = "return"
           /\ proc[p].result.value.k = "array"
           /\ Len(proc[p].result.value.items) = 1
           /\ proc[p].result.value.items[1] = proc[p].args.populate

\* An options object with a path and a select key came back wrapped, with
\* both keys.
C12_Witness ==
    \E p \in Procs :
        /\ Normalized(p)
        /\ proc[p].args.populate.k = "object"
        /\ DOMAIN proc[p].args.populate.f = {"path", "select"}
        /\ proc[p].result = Return(Arr(<<proc[p].args.populate>>))

\* C13: normalizePopulate returns undefined for an absent argument, and
\* returns every array (empty or not, of strings and options objects) as it
\* got it: same items, same order, no nesting.
C13_AbsentAndArraysUnchanged ==
    \A p \in Procs :
        (Normalized(p) /\ (proc[p].args.populate = Undefined
                            \/ proc[p].args.populate.k = "array"))
        => proc[p].result = Return(proc[p].args.populate)

\* An array of MaxItems items, an options object among them, came back
\* unchanged.
C13_Witness ==
    \E p \in Procs :
        /\ Normalized(p)
        /\ proc[p].args.populate.k = "array"
        /\ Len(proc[p].args.populate.items) = MaxItems
        /\ \E i \in 1..MaxItems : proc[p].args.populate.items[i].k = "object"
        /\ proc[p].result.value = proc[p].args.populate

\* C14: a genericDeleteOne(id) that returns found the document with
\* isDeleted = false, set its isDeleted to true and nothing else in the
\* collection, and returned the document as updated.
C14_DeleteSetsOnlyTheFlag ==
    \A p \in Procs :
        (Done(p) /\ proc[p].op = "genericDeleteOne" /\ proc[p].result.k = "return")
        => LET id == proc[p].args.id
               b == proc[p].before
           IN  /\ b[id] # Null
               /\ b[id].isDeleted = FALSE
               /\ store = [b EXCEPT ![id] = [b[id] EXCEPT !.isDeleted = TRUE]]
               /\ proc[p].result.value = store[id]
               /\ proc[p].result.value.isDeleted = TRUE

\* A genericDeleteOne returned the document of username "b" with the flag
\* set while a second, non-deleted document was stored.
C14_Witness ==
    \E p \in Procs :
        /\ Done(p) /\ proc[p].op = "genericDeleteOne"
        /\ proc[p].result.k = "return"
        /\ proc[p].result.value.username = "b"
        /\ proc[p].result.value.isDeleted = TRUE
        /\ \E i \in Ids \ {proc[p].args.id} :
              store[i] # Null /\ store[i].isDeleted = FALSE

C16_SoftDeleteIrreversible ==
    [][\A i \in Ids :
         (store[i] # Null /\ store[i].isDeleted) => store'[i] = store[i]]_vars

\* A genericUpdateOne with isDeleted = false in its dto ran on a
\* soft-deleted document and left it as it was.
C16_Witness ==
    \E p \in Procs :
        /\ Done(p) /\ proc[p].op = "genericUpdateOne"
        /\ "isDeleted" \in DOMAIN proc[p].args.dto
        /\ proc[p].args.dto.isDeleted = FALSE
        /\ proc[p].before[proc[p].args.id] # Null
        /\ proc[p].before[proc[p].args.id].isDeleted
        /\ store[proc[p].args.id] = proc[p].before[proc[p].args.id]

FilterOps ==
    {"genericFindOne", "genericFindOneWithPopulate",
     "genericFindAllWithPopulate", "genericFindOneOrNotFound"}

\* C17: in the four by-filter reads, a caller filter with isDeleted = true
\* reaches the model with isDeleted = false and its other keys unchanged,
\* and the call returns non-deleted documents only.
C17_FlagOverridesCallerFilter ==
    \A p \in Procs :
        (proc[p].pc # "idle" /\ proc[p].op \in FilterOps
            /\ "isDeleted" \in DOMAIN CallerFilter(p)
            /\ CallerFilter(p).isDeleted = TRUE)
        => /\ proc[p].queries[1].filter =
                [CallerFilter(p) EXCEPT !.isDeleted = FALSE]
           /\ \A d \in Returned(p) : d.isDeleted = FALSE

\* A genericFindOneOrNotFound({username: "a", isDeleted: true}) returned a
\* non-deleted document of username "a" while a soft-deleted one was stored.
C17_Witness ==
    \E p \in Procs :
        /\ Done(p) /\ proc[p].op = "genericFindOneOrNotFound"
        /\ proc[p].args.filter = [username |-> "a", isDeleted |-> TRUE]
        /\ proc[p].queries[1].filter = [username |-> "a", isDeleted |-> FALSE]
        /\ \E d \in Stored(proc[p].before) : d.isDeleted
        /\ \E d \in Returned(p) : d.username = "a" /\ d.isDeleted = FALSE

\* The model has executed the query of p's call and answered it.
Executed(p) ==
    proc[p].pc \in {"settled", "done"} /\ proc[p].outcome.k = "resolved"

\* Two overlapping or successive genericDeleteOne calls of the same
\* document, at least one of which found it non-deleted: one of them got
\* the document and returns it, the other got null and raises, and the
\* document is soft-deleted.
OneDeleteWins ==
    \A p, q \in Procs :
        (p # q /\ Executed(p) /\ Executed(q)
            /\ proc[p].op = "genericDeleteOne" /\ proc[q].op = "genericDeleteOne"
            /\ proc[p].args.id = proc[q].args.id
            /\ proc[p].before[proc[p].args.id] # Null
            /\ proc[p].before[proc[p].args.id].isDeleted = FALSE)
        => /\ proc[p].outcome.value = store[proc[p].args.id]
           /\ proc[q].outcome.value = Null
           /\ store[proc[p].args.id].isDeleted = TRUE
           /\ Done(p) => proc[p].result = Return(store[proc[p].args.id])
           /\ Done(q) => proc[q].result.k = "throw"

\* A genericUpdateOne whose query ran when the document was already
\* soft-deleted raises.
LateUpdateRaises ==
    \A p \in Procs :
        (Answered(p) /\ proc[p].op = "genericUpdateOne"
            /\ proc[p].before[proc[p].args.id] # Null
            /\ proc[p].before[proc[p].args.id].isDeleted)
        => proc[p].result.k = "throw"

\* The step that executes the query of a genericUpdateOne on a soft-deleted
\* document writes nothing.
LateUpdateWritesNothing ==
    \A p \in Procs :
        (proc[p].pc = "awaiting" /\ proc'[p].pc = "settled"
            /\ proc[p].op = "genericUpdateOne"
            /\ store[proc[p].args.id] # Null
            /\ store[proc[p].args.id].isDeleted)
        => store' = store

\* C18: of two concurrent genericDeleteOne(id) calls for a non-deleted
\* document exactly one returns the document and the other raises, in every
\* interleaving, and the document ends with isDeleted = true; a
\* genericUpdateOne(id, dto) that takes effect after a concurrent
\* genericDeleteOne(id) raises and modifies nothing.
C18_ConcurrentDeleteOnce ==
    /\ [](OneDeleteWins /\ LateUpdateRaises)
    /\ [][LateUpdateWritesNothing]_vars

\* One genericDeleteOne has the document and has not resumed yet, while the
\* other, whose query ran after it, has already raised.
C18_Witness ==
    \E p, q \in Procs :
        /\ p # q
        /\ proc[p].op = "genericDeleteOne" /\ proc[q].op = "genericDeleteOne"
        /\ proc[p].args.id = proc[q].args.id
        /\ proc[p].pc = "settled"
        /\ store[proc[p].args.id] # Null
        /\ proc[p].outcome = Resolved(store[proc[p].args.id])
        /\ proc[p].before[proc[p].args.id].isDeleted = FALSE
        /\ Answered(q)
        /\ proc[q].before[proc[q].args.id].isDeleted = TRUE
        /\ proc[q].result.k = "throw"

\* C19: a genericUpdateOne or genericDeleteOne that finds no non-deleted
\* document with the id raises and leaves every stored document as it was,
\* and so does every read, whether it raises, returns null or returns
\* documents.
C19_RaisingLeavesStoreUnchanged ==
    \A p \in Procs :
        /\ (Answered(p) /\ proc[p].op \in {"genericUpdateOne", "genericDeleteOne"}
              /\ Visible(proc[p].before, [_id |-> proc[p].args.id]) = {})
           => (proc[p].result.k = "throw" /\ store = proc[p].before)
        /\ (Done(p) /\ proc[p].op \in ReadOps) => store = proc[p].before

\* A genericUpdateOne on a soft-deleted document raised and the collection,
\* two documents, is as it was.
C19_Witness ==
    \E p \in Procs :
        /\ Answered(p) /\ proc[p].op = "genericUpdateOne"
        /\ proc[p].before[proc[p].args.id] # Null
        /\ proc[p].before[proc[p].args.id].isDeleted
        /\ proc[p].result.k = "throw"
        /\ \A i \in Ids : store[i] # Null
        /\ store = proc[p].before
====
